---- MODULE Spec2Model ----
(***************************************************************************)
(* Model of script.js, the client-side script of the portfolio page.       *)
(*                                                                         *)
(* Two components carry state over time and are modelled here:             *)
(*   - the contact-form submit handler (initContactForm), an async         *)
(*     function with two suspension points (await fetch, await             *)
(*     response.json()) and one status-clear timer per submission;         *)
(*   - the typewriter (initTypingEffect), a chain of setTimeout callbacks. *)
(*                                                                         *)
(* Time is in milliseconds.  A timer fires when its remaining time is 0    *)
(* and the clock does not advance past a due timer.                        *)
(***************************************************************************)
EXTENDS Integers, Sequences, FiniteSets, TLC

VARIABLES
    btnDisabled,   \* submitButton.disabled
    btnLabel,      \* submitButton.textContent
    statusText,    \* formStatus.textContent
    statusColor,   \* formStatus.style.color
    fields,        \* the form's field values
    handlers,      \* running instances of the async submit handler
    timers,        \* pending status-clear timeouts, in scheduling order
    sent,          \* sent[i]: number of fetch calls made by submission i
    statusAge,     \* ms since a handler last wrote statusText (capped)
    statusOwner,   \* id of the submission that last wrote statusText
    statusWritten, \* the text that submission wrote
    lastEvent,     \* the handler or callback that ran last
    index,         \* typewriter: let index
    isDeleting,    \* typewriter: let isDeleting
    innerHTML,     \* typewriter: typingElement.innerHTML
    typeTimer,     \* typewriter: ms until the scheduled typeWriter call
    typeStarted,   \* typewriter: initTypingEffect has called typeWriter()
    typedLog,      \* typewriter: what the calls of the current typing phase wrote
    hasSubmitButton, \* the form holds a button[type="submit"]
    filterActive,  \* filter buttons carrying the active class
    cardHidden,    \* project cards carrying the hide class
    lastFilter,    \* the filter button clicked last (0: none yet)
    hasNavLinks,   \* the page holds a .nav-links element
    hasHamburger,  \* the page holds a .hamburger element
    navActive,     \* .nav-links carries the active class
    hamToggle,     \* .hamburger carries the toggle class
    hasModal,      \* #project-modal, .project-grid and .close-btn all exist
    firstMissing,  \* the first of the modal's fields that does not exist
    modalDisplay,  \* modal.style.display
    modalTitle,    \* #modal-title textContent
    modalDesc,     \* #modal-desc textContent
    githubHref,    \* #modal-github-link href
    liveHref,      \* #modal-live-link href
    liveDisplay,   \* #modal-live-link style.display
    lastOpened,    \* the item whose detail trigger was activated last (0: none)
    pageEvent      \* the page event handled last

formVars == <<btnDisabled, btnLabel, statusText, statusColor, fields,
              handlers, timers, sent, statusAge, statusOwner, statusWritten,
              lastEvent>>
typeVars == <<index, isDeleting, innerHTML, typeTimer, typeStarted, typedLog>>
vars == <<btnDisabled, btnLabel, statusText, statusColor, fields,
          handlers, timers, sent, statusAge, statusOwner, statusWritten,
          lastEvent,
          index, isDeleting, innerHTML, typeTimer, typeStarted, typedLog,
          hasSubmitButton,
          filterActive, cardHidden, lastFilter,
          hasNavLinks, hasHamburger, navActive, hamToggle,
          hasModal, firstMissing, modalDisplay, modalTitle, modalDesc,
          githubHref, liveHref, liveDisplay, lastOpened, pageEvent>>
filterVars == <<filterActive, cardHidden, lastFilter>>
menuVars == <<hasNavLinks, hasHamburger, navActive, hamToggle>>
modalVars == <<hasModal, firstMissing, modalDisplay, modalTitle, modalDesc,
               githubHref, liveHref, liveDisplay, lastOpened>>
pageVars == <<filterVars, menuVars, modalVars, pageEvent>>

(***************************************************************************)
(* Bounds of the model.                                                    *)
(***************************************************************************)
\* number of submissions a behaviour may start
MaxSubmissions == 3
\* longest errors list a response body carries
MaxErrors == 2
\* the form's clock advances in steps of formStatusClear / TicksPerClear ms
TicksPerClear == 3
\* the typewriter's clock advances in steps of at most TypeTickMs ms
TypeTickMs == 50

(***************************************************************************)
(* TIMING                                                                  *)
(***************************************************************************)
typingSpeed == 150
deletingSpeed == 100
typingPause == 1200
formStatusClear == 6000

Min(a, b) == IF a < b THEN a ELSE b
Max(a, b) == IF a > b THEN a ELSE b

(***************************************************************************)
(* The contact form.                                                       *)
(***************************************************************************)
SendingLabel == "Mengirim..."
RestoredLabel == "Kirim Pesan"
SuccessMessage == "Pesan berhasil dikirim. Terima kasih!"
GenericFailureMessage == "Oops! Ada masalah saat mengirim pesan."
ConnectionFailureMessage == "Oops! Ada masalah koneksi."
\* faulty variant: the separator without its space
SeparatorNoSpace == ","
Separator == ", "

\* The page's markup is not part of the script: the label the submit
\* button carries before any submission, the form's fields and their
\* default values (what form.reset() restores).
OriginalLabel == "Kirim Pesan"
FieldNames == {"email", "message"}
FieldValues == {"", "hi"}
DefaultValue(f) == ""

\* HTTP statuses the endpoint may answer with.
Statuses == {200, 204, 422, 500}

\* faulty variant: every answered status counts as a success
ResponseOkLoose(status) == status >= 200

\* response.ok
ResponseOk(status) == status >= 200 /\ status <= 299

\* An entry of data.errors: an object with a message, or null (reading
\* err.message then throws).
Messages == {"Email required", "Name required"}
Entries ==
    [kind : {"object"}, message : Messages]
    \cup {[kind |-> "null", message |-> ""]}

RECURSIVE SeqsUpTo(_, _)
SeqsUpTo(S, n) ==
    IF n = 0 THEN {<<>>}
    ELSE LET shorter == SeqsUpTo(S, n - 1)
         IN  shorter \cup {Append(s, e) : s \in shorter, e \in S}

\* data.errors: absent (undefined), null, a non-empty string, or a list.
ErrorsFields ==
    {[kind |-> k, items |-> <<>>] : k \in {"absent", "null", "string"}}
    \cup {[kind |-> "list", items |-> s] : s \in SeqsUpTo(Entries, MaxErrors)}

\* What response.json() meets: no body, a body that is not JSON, the JSON
\* value null, or a JSON object.
NoErrors == [kind |-> "absent", items |-> <<>>]
Bodies ==
    {[kind |-> k, errors |-> NoErrors] : k \in {"empty", "malformed", "jsonNull"}}
    \cup {[kind |-> "object", errors |-> e] : e \in ErrorsFields}
NoBody == [kind |-> "none", errors |-> NoErrors]

\* response.json() rejects
JsonRejects(body) == body.kind \in {"empty", "malformed"}

\* JS truthiness of data.errors
Truthy(errors) == errors.kind \in {"string", "list"}

\* err => err.message
ElementString(err) == err.message

\* errors.map(err => err.message).join(", ")
RECURSIVE Join(_)
Join(items) ==
    IF Len(items) = 0 THEN ""
    ELSE IF Len(items) = 1 THEN ElementString(items[1])
    ELSE ElementString(items[1]) \o Separator \o Join(Tail(items))

\* line 247 throws a TypeError: data is null, data.errors has no map
\* method, or an entry is null
Line247Throws(body) ==
    \/ body.kind = "jsonNull"
    \/ body.kind = "object" /\ body.errors.kind = "string"
    \/ /\ body.kind = "object"
       /\ body.errors.kind = "list"
       /\ \E i \in 1..Len(body.errors.items) : body.errors.items[i].kind = "null"

\* const errorMessage = data.errors ? ... : "Oops! ..."
ErrorMessage(data) ==
    IF Truthy(data.errors) THEN Join(data.errors.items) ELSE GenericFailureMessage

\* faulty variant: the form is not reset
ResetFormNoop(f) == f

\* form.reset()
ResetForm(f) == [x \in FieldNames |-> DefaultValue(x)]

NoEvent ==
    [type |-> "none", id |-> 0, path |-> "none", status |-> 0, body |-> NoBody,
     before |-> "", fieldsBefore |-> [x \in FieldNames |-> DefaultValue(x)]]

TickMs == formStatusClear \div TicksPerClear

InitForm ==
    /\ btnDisabled = FALSE
    /\ btnLabel = OriginalLabel
    /\ statusText = ""
    /\ statusColor = ""
    /\ fields = [x \in FieldNames |-> DefaultValue(x)]
    /\ handlers = <<>>
    /\ timers = <<>>
    /\ sent = <<>>
    /\ statusAge = formStatusClear
    /\ statusOwner = 0
    /\ statusWritten = ""
    /\ lastEvent = NoEvent

\* The user types into a field.
Edit ==
    \E f \in FieldNames, v \in FieldValues :
        /\ fields[f] # v
        /\ fields' = [fields EXCEPT ![f] = v]
        /\ lastEvent' = [NoEvent EXCEPT !.type = "edit"]
        /\ UNCHANGED <<btnDisabled, btnLabel, statusText, statusColor, handlers,
                       timers, sent, statusAge, statusOwner, statusWritten>>

\* faulty variant: the button is left enabled while the request runs
StartButtonEnabled == [disabled |-> FALSE, label |-> SendingLabel]

\* what the handler does to the button before the fetch
StartButton == [disabled |-> TRUE, label |-> SendingLabel]

\* faulty variant: the handler empties the status text before the fetch
StartStatusReset(text) == ""

\* what the handler does to the status text before the fetch: nothing
StartStatus(text) == text

\* The submit event: the handler runs up to `await fetch(...)`.  The event
\* comes from the submit button, and a disabled button dispatches none.
Submit ==
    /\ hasSubmitButton
    /\ ~btnDisabled
    /\ Len(sent) < MaxSubmissions
    /\ LET id == Len(sent) + 1 IN
        /\ btnDisabled' = StartButton.disabled
        /\ btnLabel' = StartButton.label
        /\ statusText' = StartStatus(statusText)
        /\ handlers' = Append(handlers,
              [id |-> id, pc |-> "fetch", waited |-> FALSE, status |-> 0,
               request |-> fields, labelBefore |-> btnLabel])
        /\ sent' = Append(sent, 1)
        /\ lastEvent' = [NoEvent EXCEPT !.type = "submit", !.id = id,
                                        !.before = statusText]
        /\ UNCHANGED <<statusColor, fields, timers, statusAge, statusOwner,
                       statusWritten>>

\* The submit event on a form without a submit button: querySelector
\* returns null and line 231 throws, after preventDefault and before the
\* try block; the async handler's promise rejects and nothing else runs.
SubmitWithoutButton ==
    /\ ~hasSubmitButton
    /\ Len(sent) < MaxSubmissions
    /\ lastEvent' = [NoEvent EXCEPT !.type = "uncaught"]
    /\ sent' = Append(sent, 0)
    /\ UNCHANGED <<btnDisabled, btnLabel, statusText, statusColor, fields,
                   handlers, timers, statusAge, statusOwner, statusWritten>>

Remove(seq, i) == SubSeq(seq, 1, i - 1) \o SubSeq(seq, i + 1, Len(seq))

\* faulty variant: the timeout is scheduled with another TIMING entry
ClearDelayPause == typingPause

\* the delay of the status-clear timeout
ClearDelay == formStatusClear

\* faulty variant: the finally block cancels the timeouts still pending
FinallyTimersCancelling(old, id) == <<[owner |-> id, remaining |-> ClearDelay]>>

\* timers a handler's finally block leaves pending: the old ones and its own
FinallyTimers(old, id) == Append(old, [owner |-> id, remaining |-> ClearDelay])

\* faulty variant: the finally block does not restore the label
FinallyButtonKeepsLabel == [disabled |-> FALSE, label |-> SendingLabel]

\* the button after the finally block
FinallyButton == [disabled |-> FALSE, label |-> RestoredLabel]

\* finally { ... }
Finally(h) ==
    /\ btnDisabled' = FinallyButton.disabled
    /\ btnLabel' = FinallyButton.label
    /\ timers' = FinallyTimers(timers, h.id)

\* faulty variant: the catch block shows the generic failure message
CatchStatusGeneric == [text |-> GenericFailureMessage, color |-> "red"]

\* catch (error) { ... }
CatchStatus == [text |-> ConnectionFailureMessage, color |-> "red"]

\* if (response.ok) { ... }
OkStatus == [text |-> SuccessMessage, color |-> "green"]

\* fetch fulfils with a success status: the ok branch, then finally.
FetchOk ==
    \E i \in 1..Len(handlers), s \in Statuses :
        LET h == handlers[i] IN
        /\ h.pc = "fetch"
        /\ h.waited
        /\ ResponseOk(s)
        /\ statusText' = OkStatus.text
        /\ statusColor' = OkStatus.color
        /\ fields' = ResetForm(fields)
        /\ Finally(h)
        /\ handlers' = Remove(handlers, i)
        /\ statusAge' = 0
        /\ statusOwner' = h.id
        /\ statusWritten' = statusText'
        /\ lastEvent' = [NoEvent EXCEPT !.type = "settle", !.id = h.id,
                                        !.path = "ok", !.status = s,
                                        !.before = h.labelBefore,
                                        !.fieldsBefore = fields]
        /\ UNCHANGED sent

\* fetch fulfils with another status: the handler calls response.json()
\* and suspends again.
FetchNotOk ==
    \E i \in 1..Len(handlers), s \in Statuses :
        LET h == handlers[i] IN
        /\ h.pc = "fetch"
        /\ h.waited
        /\ ~ResponseOk(s)
        /\ handlers' = [handlers EXCEPT ![i] = [h EXCEPT !.pc = "json", !.status = s]]
        /\ lastEvent' = [NoEvent EXCEPT !.type = "response", !.id = h.id,
                                        !.status = s]
        /\ UNCHANGED <<btnDisabled, btnLabel, statusText, statusColor, fields,
                       timers, sent, statusAge, statusOwner, statusWritten>>

\* fetch rejects: catch, then finally.
FetchReject ==
    \E i \in 1..Len(handlers) :
        LET h == handlers[i] IN
        /\ h.pc = "fetch"
        /\ h.waited
        /\ statusText' = CatchStatus.text
        /\ statusColor' = CatchStatus.color
        /\ Finally(h)
        /\ handlers' = Remove(handlers, i)
        /\ statusAge' = 0
        /\ statusOwner' = h.id
        /\ statusWritten' = statusText'
        /\ lastEvent' = [NoEvent EXCEPT !.type = "settle", !.id = h.id,
                                        !.path = "rejected",
                                        !.before = h.labelBefore,
                                        !.fieldsBefore = fields]
        /\ UNCHANGED <<fields, sent>>

\* the status the handler shows once response.json() has settled
JsonStatus(body) ==
    IF JsonRejects(body) \/ Line247Throws(body)
    THEN CatchStatus
    ELSE [text |-> ErrorMessage(body), color |-> "red"]

\* the path the handler takes once response.json() has settled
JsonPath(body) ==
    IF JsonRejects(body) \/ Line247Throws(body) THEN "exception" ELSE "http"

\* response.json() settles: lines 247-249 or catch, then finally.
JsonSettle ==
    \E i \in 1..Len(handlers), body \in Bodies :
        LET h == handlers[i] IN
        /\ h.pc = "json"
        /\ statusText' = JsonStatus(body).text
        /\ statusColor' = JsonStatus(body).color
        /\ Finally(h)
        /\ handlers' = Remove(handlers, i)
        /\ statusAge' = 0
        /\ statusOwner' = h.id
        /\ statusWritten' = statusText'
        /\ lastEvent' = [NoEvent EXCEPT !.type = "settle", !.id = h.id,
                                        !.path = JsonPath(body), !.status = h.status,
                                        !.body = body,
                                        !.before = h.labelBefore,
                                        !.fieldsBefore = fields]
        /\ UNCHANGED <<fields, sent>>

\* () => { formStatus.textContent = ''; }
ClearCallback(text) == ""

\* The oldest status-clear timeout is due and its callback runs.
TimerFire ==
    /\ timers # <<>>
    /\ timers[1].remaining = 0
    /\ statusText' = ClearCallback(statusText)
    /\ timers' = Tail(timers)
    /\ lastEvent' = [NoEvent EXCEPT !.type = "timer", !.id = timers[1].owner,
                                    !.before = statusText]
    /\ UNCHANGED <<btnDisabled, btnLabel, statusColor, fields, handlers, sent,
                   statusAge, statusOwner, statusWritten>>

\* Time passes, up to the next due timer.  A request in flight has then
\* waited: a network round trip takes time.
Tick ==
    /\ \A j \in 1..Len(timers) : timers[j].remaining > 0
    /\ timers # <<>> \/ handlers # <<>>
    /\ LET d == IF timers = <<>> THEN TickMs ELSE Min(TickMs, timers[1].remaining) IN
        /\ timers' = [j \in 1..Len(timers) |->
                        [timers[j] EXCEPT !.remaining = timers[j].remaining - d]]
        /\ statusAge' = Min(formStatusClear, statusAge + d)
        /\ handlers' = [j \in 1..Len(handlers) |->
                          [handlers[j] EXCEPT !.waited = TRUE]]
        /\ lastEvent' = [NoEvent EXCEPT !.type = "tick"]
        /\ UNCHANGED <<btnDisabled, btnLabel, statusText, statusColor, fields,
                       sent, statusOwner, statusWritten>>

(***************************************************************************)
(* The typewriter.                                                         *)
(***************************************************************************)
\* const text = "Adidtiya Kurniawan", as its characters
text ==
    <<"A", "d", "i", "d", "t", "i", "y", "a", " ",
      "K", "u", "r", "n", "i", "a", "w", "a", "n">>

Clamp(n, len) == IF n < 0 THEN 0 ELSE IF n > len THEN len ELSE n

\* faulty variant: the end index is taken one too far
SubstringOneMore(s, start, end) ==
    SubSeq(s, Clamp(start, Len(s)) + 1, Clamp(end + 1, Len(s)))

\* String.prototype.substring: both ends clamped to 0..length, swapped
\* when start > end
Substring(s, start, end) ==
    LET a == Clamp(start, Len(s))
        b == Clamp(end, Len(s))
    IN  SubSeq(s, Min(a, b) + 1, Max(a, b))

InitTyping ==
    /\ index = 0
    /\ isDeleting = FALSE
    /\ innerHTML = <<>>
    /\ typeTimer = 0
    /\ typeStarted = FALSE
    /\ typedLog = <<>>

\* faulty variant: the typing branch also runs at the full length
CanTypeInclusive(i, deleting) == ~deleting /\ i <= Len(text)

\* if (!isDeleting && index < text.length)
CanType(i, deleting) == ~deleting /\ i < Len(text)

\* faulty variant: the deleting branch also runs at index 0
CanDeleteInclusive(i, deleting) == deleting /\ i >= 0

\* else if (isDeleting && index > 0)
CanDelete(i, deleting) == deleting /\ i > 0

\* History of typeWriter: a call made while typing logs what it wrote, and
\* the call that switches from deleting to typing starts a new log.
LogAfter(log, deleting, deletingAfter, written) ==
    IF ~deleting THEN Append(log, written)
    ELSE IF ~deletingAfter THEN <<>>
    ELSE log

\* function typeWriter()
TypeWriter ==
    /\ innerHTML' = Substring(text, 0, index)
    /\ IF CanType(index, isDeleting)
       THEN /\ index' = index + 1
            /\ typeTimer' = typingSpeed
            /\ UNCHANGED isDeleting
       ELSE IF CanDelete(index, isDeleting)
       THEN /\ index' = index - 1
            /\ typeTimer' = deletingSpeed
            /\ UNCHANGED isDeleting
       ELSE /\ isDeleting' = ~isDeleting
            /\ typeTimer' = typingPause
            /\ UNCHANGED index
    /\ typedLog' = LogAfter(typedLog, isDeleting, isDeleting', innerHTML')

\* initTypingEffect calls typeWriter() once.
StartTyping ==
    /\ ~typeStarted
    /\ typeStarted' = TRUE
    /\ TypeWriter

\* The scheduled timeout is due: typeWriter runs again.
TypeStep ==
    /\ typeStarted
    /\ typeTimer = 0
    /\ UNCHANGED typeStarted
    /\ TypeWriter

\* Time passes, up to the scheduled typeWriter call.
TypeTick ==
    /\ typeStarted
    /\ typeTimer > 0
    /\ typeTimer' = typeTimer - Min(TypeTickMs, typeTimer)
    /\ UNCHANGED <<index, isDeleting, innerHTML, typeStarted, typedLog>>

(***************************************************************************)
(* The project filter.                                                     *)
(* Strings that the code searches are sequences of characters.             *)
(***************************************************************************)
All == <<"a", "l", "l">>
Web == <<"w", "e", "b">>
Java == <<"j", "a", "v", "a">>
JavaScript == <<"j", "a", "v", "a", "s", "c", "r", "i", "p", "t">>

\* The markup is not part of the script: the data-filter value of each
\* .filter-btn, in document order, and the category tags of each
\* .project-card, which data-category holds separated by spaces.
FilterValues == <<All, Web, Java, JavaScript>>
CardTags == << <<Web>>, <<JavaScript, Web>>, <<Java>> >>
Buttons == 1..Len(FilterValues)
Cards == 1..Len(CardTags)

RECURSIVE JoinTags(_)
JoinTags(tags) ==
    IF Len(tags) = 0 THEN <<>>
    ELSE IF Len(tags) = 1 THEN tags[1]
    ELSE tags[1] \o <<" ">> \o JoinTags(Tail(tags))

\* card.dataset.category
Category(c) == JoinTags(CardTags[c])

\* String.prototype.includes: sub occurs in s as a substring
Includes(s, sub) ==
    \E i \in 0..(Len(s) - Len(sub)) : SubSeq(s, i + 1, i + Len(sub)) = sub

\* const isVisible = filterValue === 'all' || card.dataset.category.includes(filterValue)
IsVisible(filterValue, category) ==
    filterValue = All \/ Includes(category, filterValue)

\* faulty variant: classList.toggle without the force argument
HideAfterToggle(wasHidden, isVisible) == IF isVisible THEN wasHidden ELSE ~wasHidden

\* card.classList.toggle(CLASSES.hide, !isVisible)
HideAfter(wasHidden, isVisible) == ~isVisible

\* filterContainer.querySelector('.active'): the first active button
FirstActive(active) == CHOOSE b \in active : \A o \in active : b <= o

\* faulty variant: the active class of the old button is not removed
ActiveAfterKeepsOld(active, b) == active \cup {b}

\* lines 169-170
ActiveAfter(active, b) ==
    (IF active = {} THEN {} ELSE active \ {FirstActive(active)}) \cup {b}

\* n: the button or item clicked; repeat: the same filter button as the
\* click before; open: the menu was open at an anchor click; threw: the
\* handler ended in an uncaught exception
NoPageEvent ==
    [type |-> "none", n |-> 0, repeat |-> FALSE, open |-> FALSE, threw |-> FALSE]

InitFilter ==
    /\ filterActive \in {a \in SUBSET Buttons : Cardinality(a) <= 1}
    /\ cardHidden \in SUBSET Cards
    /\ lastFilter = 0

InitFilterFixed ==
    /\ filterActive = {1}
    /\ cardHidden = {}
    /\ lastFilter = 0

\* A click on filter button b.
FilterClick ==
    \E b \in Buttons :
        /\ filterActive' = ActiveAfter(filterActive, b)
        /\ cardHidden' = {c \in Cards :
              HideAfter(c \in cardHidden, IsVisible(FilterValues[b], Category(c)))}
        /\ lastFilter' = b
        /\ pageEvent' = [NoPageEvent EXCEPT !.type = "filter", !.n = b,
                                            !.repeat = (lastFilter = b)]

\* A click in the filter container that is not on a .filter-btn.
ContainerClick ==
    /\ pageEvent' = [NoPageEvent EXCEPT !.type = "container"]
    /\ UNCHANGED filterVars

(***************************************************************************)
(* The mobile menu and the anchor links.                                   *)
(***************************************************************************)
InitMenu ==
    /\ hasNavLinks \in BOOLEAN
    /\ hasHamburger \in BOOLEAN
    /\ navActive = FALSE
    /\ hamToggle = FALSE

InitMenuFixed ==
    /\ hasNavLinks = TRUE
    /\ hasHamburger = TRUE
    /\ navActive = FALSE
    /\ hamToggle = FALSE

\* A click on the hamburger; the listener exists when both elements do.
HamburgerClick ==
    /\ hasHamburger
    /\ IF hasNavLinks
       THEN /\ navActive' = ~navActive
            /\ hamToggle' = ~hamToggle
       ELSE UNCHANGED <<navActive, hamToggle>>
    /\ pageEvent' = [NoPageEvent EXCEPT !.type = "hamburger"]
    /\ UNCHANGED <<hasNavLinks, hasHamburger>>

\* faulty variant: the anchor handler leaves the hamburger's class alone
ToggleAfterAnchorKept(toggle, present) == toggle

\* hamburger?.classList.remove(CLASSES.toggle)
ToggleAfterAnchor(toggle, present) == IF present THEN FALSE ELSE toggle

\* A click on an a[href^="#"] link whose target exists or not.  Without a
\* target querySelector returns null and scrollIntoView throws.
AnchorClick ==
    \E targetExists \in BOOLEAN :
        /\ IF targetExists /\ hasNavLinks /\ navActive
           THEN /\ navActive' = FALSE
                /\ hamToggle' = ToggleAfterAnchor(hamToggle, hasHamburger)
           ELSE UNCHANGED <<navActive, hamToggle>>
        /\ pageEvent' = [NoPageEvent EXCEPT !.type = "anchor",
                                            !.n = IF targetExists THEN 1 ELSE 0,
                                            !.open = navActive,
                                            !.threw = ~targetExists]
        /\ UNCHANGED <<hasNavLinks, hasHamburger>>

(***************************************************************************)
(* The project modal.                                                      *)
(***************************************************************************)
UrlX == <<"h", "t", "t", "p", "s", ":", "/", "/", "x">>
UrlY == <<"h", "t", "t", "p", "s", ":", "/", "/", "y">>

\* The markup is not part of the script: the data-title, data-desc,
\* data-github and optional data-live of each .project-detail-btn.  The
\* live link is given, absent, empty or blank.
Items ==
    << [title |-> "Toko", desc |-> "Toko online", github |-> "https://github.com/a/toko",
        hasLive |-> TRUE, live |-> UrlX],
       [title |-> "Kasir", desc |-> "Aplikasi kasir", github |-> "https://github.com/a/kasir",
        hasLive |-> FALSE, live |-> <<>>],
       [title |-> "Blog", desc |-> "Blog pribadi", github |-> "https://github.com/a/blog",
        hasLive |-> TRUE, live |-> <<>>],
       [title |-> "Cuaca", desc |-> "Prakiraan cuaca", github |-> "https://github.com/a/cuaca",
        hasLive |-> TRUE, live |-> <<" ", " ">>],
       [title |-> "Peta", desc |-> "Peta kampus", github |-> "https://github.com/a/peta",
        hasLive |-> TRUE, live |-> UrlY] >>

\* keys the user may press
Keys == {"Escape", "Enter"}

WhiteSpace == {" ", "\t", "\n"}

RECURSIVE TrimStart(_)
TrimStart(str) ==
    IF str # <<>> /\ Head(str) \in WhiteSpace THEN TrimStart(Tail(str)) ELSE str

RECURSIVE TrimEnd(_)
TrimEnd(str) ==
    IF str # <<>> /\ str[Len(str)] \in WhiteSpace
    THEN TrimEnd(SubSeq(str, 1, Len(str) - 1))
    ELSE str

\* String.prototype.trim
Trim(str) == TrimEnd(TrimStart(str))

\* faulty variant: the live link is not trimmed before the test
LiveGivenNoTrim(item) == item.hasLive /\ item.live # <<>>

\* if (liveLink && liveLink.trim() !== '')
LiveGiven(item) == item.hasLive /\ item.live # <<>> /\ Trim(item.live) # <<>>

\* The modal's fields in the order openModal reaches them (lines 188, 189,
\* 190, 193); "none" when all four exist.
FieldOrder == <<"title", "desc", "github", "live", "none">>
Position(f) == CHOOSE k \in 1..Len(FieldOrder) : FieldOrder[k] = f

\* openModal gets past its k-th field without throwing
Passes(k) == Position(firstMissing) > k

InitModal ==
    /\ hasModal \in BOOLEAN
    /\ firstMissing \in (IF hasModal THEN {"title", "desc", "github", "live", "none"}
                                     ELSE {"none"})
    /\ modalDisplay = ""
    /\ modalTitle = ""
    /\ modalDesc = ""
    /\ githubHref = ""
    /\ liveHref = <<>>
    /\ liveDisplay = ""
    /\ lastOpened = 0

InitModalFixed ==
    /\ hasModal = TRUE
    /\ firstMissing = "none"
    /\ modalDisplay = ""
    /\ modalTitle = ""
    /\ modalDesc = ""
    /\ githubHref = ""
    /\ liveHref = <<>>
    /\ liveDisplay = ""
    /\ lastOpened = 0

\* function openModal(detailButton): a missing field makes the assignment
\* to it throw, and what follows does not run
OpenModal(item) ==
    /\ modalTitle' = IF Passes(1) THEN item.title ELSE modalTitle
    /\ modalDesc' = IF Passes(2) THEN item.desc ELSE modalDesc
    /\ githubHref' = IF Passes(3) THEN item.github ELSE githubHref
    /\ liveHref' = IF Passes(4) /\ LiveGiven(item) THEN item.live ELSE liveHref
    /\ liveDisplay' = IF ~Passes(4) THEN liveDisplay
                      ELSE IF LiveGiven(item) THEN "inline-block" ELSE "none"
    /\ modalDisplay' = IF Passes(4) THEN "block" ELSE modalDisplay

\* A click on (or inside) the detail trigger of item i.
DetailClick ==
    \E i \in 1..Len(Items) :
        /\ hasModal
        /\ OpenModal(Items[i])
        /\ lastOpened' = i
        /\ pageEvent' = [NoPageEvent EXCEPT !.type = "detail", !.n = i,
                                            !.threw = ~Passes(4)]
        /\ UNCHANGED <<hasModal, firstMissing>>

\* A click in the project grid outside every detail trigger.
GridClick ==
    /\ hasModal
    /\ pageEvent' = [NoPageEvent EXCEPT !.type = "grid"]
    /\ UNCHANGED modalVars

\* function closeModal()
CloseModal ==
    /\ modalDisplay' = "none"
    /\ UNCHANGED <<hasModal, firstMissing, modalTitle, modalDesc, githubHref,
                   liveHref, liveDisplay, lastOpened>>

\* A click on the close control.
CloseClick ==
    /\ hasModal
    /\ CloseModal
    /\ pageEvent' = [NoPageEvent EXCEPT !.type = "close"]

\* A click whose target is the modal element itself (its backdrop).
BackdropClick ==
    /\ hasModal
    /\ CloseModal
    /\ pageEvent' = [NoPageEvent EXCEPT !.type = "backdrop"]

\* A click inside the dialog's content: e.target is not the modal.
ContentClick ==
    /\ hasModal
    /\ pageEvent' = [NoPageEvent EXCEPT !.type = "content"]
    /\ UNCHANGED modalVars

\* faulty variant: Escape closes without looking at the display
EscapeClosesAlways(key, display) == key = "Escape"

\* if (e.key === 'Escape' && modal.style.display === 'block')
EscapeCloses(key, display) == key = "Escape" /\ display = "block"

\* A key is pressed; the listener exists when the modal was initialised.
KeyDown ==
    \E key \in Keys :
        /\ IF hasModal /\ EscapeCloses(key, modalDisplay)
           THEN CloseModal
           ELSE UNCHANGED modalVars
        /\ pageEvent' = [NoPageEvent EXCEPT !.type = key]

\* every expected element exists and no event has been handled
Init ==
    /\ InitForm
    /\ InitTyping
    /\ hasSubmitButton = TRUE
    /\ InitFilterFixed
    /\ InitMenuFixed
    /\ InitModalFixed
    /\ pageEvent = NoPageEvent

\* the contact form, with or without its submit button
InitFormPage ==
    /\ InitForm
    /\ InitTyping
    /\ hasSubmitButton \in BOOLEAN
    /\ InitFilterFixed
    /\ InitMenuFixed
    /\ InitModalFixed
    /\ pageEvent = NoPageEvent

\* the filter and the menu, for every markup of theirs
InitBrowse ==
    /\ InitForm
    /\ InitTyping
    /\ hasSubmitButton = TRUE
    /\ InitFilter
    /\ InitMenu
    /\ InitModalFixed
    /\ pageEvent = NoPageEvent

\* the modal, for every set of its elements
InitModalPage ==
    /\ InitForm
    /\ InitTyping
    /\ hasSubmitButton = TRUE
    /\ InitFilterFixed
    /\ InitMenuFixed
    /\ InitModal
    /\ pageEvent = NoPageEvent

NextForm ==
    \/ Edit /\ UNCHANGED <<typeVars, pageVars, hasSubmitButton>>
    \/ Submit /\ UNCHANGED <<typeVars, pageVars, hasSubmitButton>>
    \/ SubmitWithoutButton /\ UNCHANGED <<typeVars, pageVars, hasSubmitButton>>
    \/ FetchOk /\ UNCHANGED <<typeVars, pageVars, hasSubmitButton>>
    \/ FetchNotOk /\ UNCHANGED <<typeVars, pageVars, hasSubmitButton>>
    \/ FetchReject /\ UNCHANGED <<typeVars, pageVars, hasSubmitButton>>
    \/ JsonSettle /\ UNCHANGED <<typeVars, pageVars, hasSubmitButton>>
    \/ TimerFire /\ UNCHANGED <<typeVars, pageVars, hasSubmitButton>>
    \/ Tick /\ UNCHANGED <<typeVars, pageVars, hasSubmitButton>>

NextTyping ==
    \/ StartTyping /\ UNCHANGED <<formVars, pageVars, hasSubmitButton>>
    \/ TypeStep /\ UNCHANGED <<formVars, pageVars, hasSubmitButton>>
    \/ TypeTick /\ UNCHANGED <<formVars, pageVars, hasSubmitButton>>

NextBrowse ==
    \/ FilterClick /\ UNCHANGED <<formVars, typeVars, hasSubmitButton, menuVars, modalVars>>
    \/ ContainerClick /\ UNCHANGED <<formVars, typeVars, hasSubmitButton, menuVars, modalVars>>
    \/ HamburgerClick /\ UNCHANGED <<formVars, typeVars, hasSubmitButton, filterVars, modalVars>>
    \/ AnchorClick /\ UNCHANGED <<formVars, typeVars, hasSubmitButton, filterVars, modalVars>>

NextModal ==
    \/ DetailClick /\ UNCHANGED <<formVars, typeVars, hasSubmitButton, filterVars, menuVars>>
    \/ GridClick /\ UNCHANGED <<formVars, typeVars, hasSubmitButton, filterVars, menuVars>>
    \/ CloseClick /\ UNCHANGED <<formVars, typeVars, hasSubmitButton, filterVars, menuVars>>
    \/ BackdropClick /\ UNCHANGED <<formVars, typeVars, hasSubmitButton, filterVars, menuVars>>
    \/ ContentClick /\ UNCHANGED <<formVars, typeVars, hasSubmitButton, filterVars, menuVars>>
    \/ KeyDown /\ UNCHANGED <<formVars, typeVars, hasSubmitButton, filterVars, menuVars>>

\* the contact form alone
SpecForm == InitFormPage /\ [][NextForm]_vars

\* the typewriter alone
SpecTyping == Init /\ [][NextTyping]_vars

\* the typewriter with its timeouts firing: a scheduled setTimeout callback
\* is eventually run by the event loop
SpecTypingFair == SpecTyping /\ WF_vars(NextTyping)

\* the project filter, the mobile menu and the anchor links
SpecBrowse == InitBrowse /\ [][NextBrowse]_vars

\* the project modal
SpecModal == InitModalPage /\ [][NextModal]_vars

(***************************************************************************)
(* Properties of the contact form, checked under SpecForm.                 *)
(* In a "settle" event lastEvent.before is the button's label when the     *)
(* submission started; in a "submit" or "timer" event it is the status     *)
(* text before the event.                                                  *)
(***************************************************************************)
Settled == lastEvent.type = "settle"
AllEmpty(f) == \A x \in FieldNames : f[x] = ""

\* C1: on every path of a submission (success status, non-success status,
\* thrown network or parse exception), once the submission resolves the
\* submit control is enabled and carries the label it had before the
\* submission started.
C1_ButtonRestoredOnEveryPath ==
    Settled =>
        /\ lastEvent.path \in {"ok", "http", "exception", "rejected"}
        /\ btnDisabled = FALSE
        /\ btnLabel = lastEvent.before

\* C1 witness: the first submission has resolved on the exception path of
\* response.json() and the button is enabled with the label of the markup.
C1_Witness ==
    /\ Settled
    /\ lastEvent.path = "exception"
    /\ Len(sent) = 1
    /\ btnDisabled = FALSE
    /\ btnLabel = OriginalLabel

\* C2: right after the handler has run on a response with a success
\* status, the status text is the success message in green, every field is
\* empty, and the submit control is enabled with its label restored.
C2_SuccessPath ==
    (Settled /\ lastEvent.status \in 200..299) =>
        /\ statusText = "Pesan berhasil dikirim. Terima kasih!"
        /\ statusColor = "green"
        /\ AllEmpty(fields)
        /\ btnDisabled = FALSE
        /\ btnLabel = lastEvent.before

\* C2 witness: a success response was handled while the fields were filled
\* in, and they are empty now.
C2_Witness ==
    /\ Settled
    /\ lastEvent.status = 200
    /\ \A x \in FieldNames : lastEvent.fieldsBefore[x] = "hi"
    /\ AllEmpty(fields)
    /\ statusText = "Pesan berhasil dikirim. Terima kasih!"

AllHaveMessages(items) ==
    \A i \in 1..Len(items) : items[i].kind = "object"

\* the first n messages in list order, ", " between neighbours
RECURSIVE MessagesInOrder(_, _)
MessagesInOrder(items, n) ==
    IF n = 0 THEN ""
    ELSE IF n = 1 THEN items[1].message
    ELSE MessagesInOrder(items, n - 1) \o ", " \o items[n].message

\* C3: after a non-success response whose body carries a list of error
\* entries, the status text is exactly the entries' messages in list order
\* with ", " between them (one entry: just its message), in red.
C3_ErrorsJoined ==
    (/\ Settled
     /\ lastEvent.status \notin 200..299
     /\ lastEvent.body.kind = "object"
     /\ lastEvent.body.errors.kind = "list"
     /\ AllHaveMessages(lastEvent.body.errors.items)) =>
        /\ statusText = MessagesInOrder(lastEvent.body.errors.items,
                                        Len(lastEvent.body.errors.items))
        /\ (Len(lastEvent.body.errors.items) = 1 =>
                statusText = lastEvent.body.errors.items[1].message)
        /\ statusColor = "red"

\* C3 witness: status 422 with two different messages, shown joined.
C3_Witness ==
    /\ Settled
    /\ lastEvent.status = 422
    /\ lastEvent.body.errors.kind = "list"
    /\ Len(lastEvent.body.errors.items) = 2
    /\ statusText = "Email required, Name required"
    /\ statusColor = "red"

\* C4 (as claimed): after a non-success response without a structured error
\* list (errors field absent, body absent, body malformed) the status text
\* is the generic failure message, in red.
C4_GenericWithoutErrorList ==
    (/\ Settled
     /\ lastEvent.status \notin 200..299
     /\ \/ lastEvent.body.kind \in {"empty", "malformed"}
        \/ lastEvent.body.kind = "object" /\ lastEvent.body.errors.kind = "absent") =>
        /\ statusText = "Oops! Ada masalah saat mengirim pesan."
        /\ statusColor = "red"

\* C5: when fetch rejects, the status text is the connectivity-failure
\* message in red, and the submission has issued one request and is over.
C5_RejectedFetch ==
    (Settled /\ lastEvent.path = "rejected") =>
        /\ statusText = "Oops! Ada masalah koneksi."
        /\ statusColor = "red"
        /\ sent[lastEvent.id] = 1
        /\ \A i \in 1..Len(handlers) : handlers[i].id # lastEvent.id

\* C5 witness: a second submission's fetch has rejected.
C5_Witness ==
    /\ Settled
    /\ lastEvent.path = "rejected"
    /\ lastEvent.id = 2
    /\ statusText = "Oops! Ada masalah koneksi."
    /\ sent[2] = 1

\* C6 (as claimed): at the start of a submission the status text is reset
\* to empty, so no earlier message shows while a request is pending.
C6_StatusResetAtStart ==
    /\ lastEvent.type = "submit" => statusText = ""
    /\ handlers # <<>> => statusText = ""

\* C6 (amended): the start of a submission leaves the status text as it
\* was, and while a handler is running the text changes only when a clear
\* timeout fires or a handler resumes.
C6_StatusKeptAtStart ==
    [][/\ lastEvent'.type = "submit" => statusText' = statusText
       /\ (handlers # <<>> /\ statusText' # statusText) =>
              \/ lastEvent'.type = "timer" /\ statusText' = ""
              \/ lastEvent'.type = "settle"]_vars

\* C6 witness: a second submission has just started and the message the
\* first one wrote is still shown.
C6_Witness ==
    /\ lastEvent.type = "submit"
    /\ lastEvent.id = 2
    /\ statusText = statusWritten
    /\ statusText # ""

\* C7: with one submission and nothing after it, the text the handler wrote
\* stays until the clear timeout fires, the timeout fires formStatusClear
\* ms after the write, and the text is empty from then on.
C7_ClearedAfterDelay ==
    (Len(sent) = 1 /\ handlers = <<>>) =>
        IF timers # <<>>
        THEN /\ Len(timers) = 1
             /\ statusText = statusWritten
             /\ statusAge + timers[1].remaining = 6000
        ELSE /\ statusText = ""
             /\ statusAge = 6000

\* C7 witness: the only submission's timeout has fired and emptied a
\* success message.
C7_Witness ==
    /\ Len(sent) = 1
    /\ handlers = <<>>
    /\ timers = <<>>
    /\ statusWritten = "Pesan berhasil dikirim. Terima kasih!"
    /\ lastEvent.type = "timer"
    /\ lastEvent.before = statusWritten
    /\ statusText = ""

\* C8: a pending clear timeout goes away only by firing, and when it fires
\* after a later submission has written the status text it empties that
\* text less than formStatusClear ms after it was written.
C8_TimerNeverCancelled ==
    [][/\ \A j \in 1..Len(timers) :
            \/ \E k \in 1..Len(timers') : timers'[k].owner = timers[j].owner
            \/ /\ j = 1
               /\ timers[1].remaining = 0
               /\ lastEvent'.type = "timer"
               /\ lastEvent'.id = timers[1].owner
               /\ statusText' = ""
       /\ (lastEvent'.type = "timer" /\ timers' # timers
           /\ lastEvent'.id < statusOwner) =>
              /\ statusText' = ""
              /\ statusAge < 6000]_vars

\* C8 witness: the first submission's timeout has just emptied the message
\* of a later submission, which is younger than formStatusClear ms.
C8_Witness ==
    /\ lastEvent.type = "timer"
    /\ lastEvent.id = 1
    /\ statusOwner = 2
    /\ lastEvent.before = statusWritten
    /\ statusWritten # ""
    /\ statusText = ""
    /\ statusAge < 6000
    /\ timers # <<>>

\* C9: while a handler is running (request in flight or body being read)
\* the submit control is disabled, and at most one handler is running.
C9_DisabledWhileInFlight ==
    /\ handlers # <<>> => btnDisabled = TRUE
    /\ Len(handlers) <= 1

\* C9 witness: a request was answered with a non-success status, its body
\* is being read, and the button is still disabled.
C9_Witness ==
    /\ Len(handlers) = 1
    /\ handlers[1].pc = "json"
    /\ btnDisabled = TRUE

(***************************************************************************)
(* Properties of the typewriter, checked under SpecTyping.                 *)
(***************************************************************************)
\* C10: 0 <= index <= len(text) in every state of the typewriter.
C10_IndexInRange == 0 <= index /\ index <= Len(text)

\* C10 witness: the typewriter has typed the whole text, deleted it again
\* and stands at index 0 in the deleting phase.
C10_Witness ==
    /\ typeStarted
    /\ isDeleting
    /\ index = 0
    /\ innerHTML = <<"A">>

\* a step in which typeWriter runs
TypeWriterRuns == typeTimer' > typeTimer \/ (~typeStarted /\ typeStarted')

\* C11: the typewriter never stops and alternates forever.  A call at the
\* full length while typing switches to deleting and is the one call that
\* schedules with the pause delay; a call at index 0 while deleting
\* switches to typing likewise; every other call types or deletes one
\* character with the typing or deleting delay.  Both ends are reached
\* again and again.
C11_CycleForever ==
    /\ [][TypeWriterRuns =>
            IF ~isDeleting /\ index = Len(text)
            THEN isDeleting' /\ index' = index /\ typeTimer' = 1200
            ELSE IF isDeleting /\ index = 0
            THEN ~isDeleting' /\ index' = index /\ typeTimer' = 1200
            ELSE /\ isDeleting' = isDeleting
                 /\ index' # index
                 /\ typeTimer' \in {150, 100}]_vars
    /\ [](ENABLED <<NextTyping>>_vars)
    /\ []<>(isDeleting /\ index = Len(text))
    /\ []<>(~isDeleting /\ index = 0)

\* C11 witness: after a full type/pause/delete pass the pause step at
\* index 0 has just switched back to typing.
C11_Witness ==
    /\ typeStarted
    /\ ~isDeleting
    /\ index = 0
    /\ typeTimer = 1200
    /\ innerHTML = <<>>

\* C12: in every typing phase the calls write the prefixes of the text of
\* length 0, 1, ... in that order, one prefix per call, none skipped or
\* repeated, and the phase ends when the whole text has been written.
C12_PrefixesInOrder ==
    /\ \A k \in 1..Len(typedLog) : typedLog[k] = SubSeq(text, 1, k - 1)
    /\ Len(typedLog) <= Len(text) + 1
    /\ ~isDeleting => Len(typedLog) = index
    /\ isDeleting => Len(typedLog) = Len(text) + 1

\* C12 witness: a typing phase that followed a delete phase has written
\* every prefix up to the whole text.
C12_Witness ==
    /\ isDeleting
    /\ index = 0
    /\ Len(typedLog) = Len(text) + 1
    /\ typedLog[Len(typedLog)] = text

(***************************************************************************)
(* Properties of the project filter and the menu, checked under            *)
(* SpecBrowse.                                                             *)
(***************************************************************************)
HasTag(c, value) == \E k \in 1..Len(CardTags[c]) : CardTags[c][k] = value

\* C13 (as claimed): right after a click on a filter button with value F a
\* card is visible iff F is "all" or F is one of the card's tags.
C13_VisibleIffTagged ==
    pageEvent.type = "filter" =>
        \A c \in Cards :
            (c \notin cardHidden) <=>
                (FilterValues[pageEvent.n] = All \/ HasTag(c, FilterValues[pageEvent.n]))

\* C14: once a filter button has been clicked, exactly one button carries
\* the active class and it is the one clicked last.
C14_OneActiveButton ==
    lastFilter # 0 => filterActive = {lastFilter}

\* C14 witness: button 3 was clicked after another button and is the only
\* active one.
C14_Witness ==
    /\ pageEvent.type = "filter"
    /\ pageEvent.n = 3
    /\ ~pageEvent.repeat
    /\ filterActive = {3}

\* C15: a click on the filter button that was also clicked the time before
\* changes neither the hidden cards nor the active buttons.
C15_FilterIdempotent ==
    [][(pageEvent'.type = "filter" /\ pageEvent'.repeat) =>
            /\ cardHidden' = cardHidden
            /\ filterActive' = filterActive]_vars

\* C15 witness: the "web" button was clicked twice in a row; the card
\* without that tag is hidden.
C15_Witness ==
    /\ pageEvent.type = "filter"
    /\ pageEvent.repeat
    /\ pageEvent.n = 2
    /\ cardHidden = {3}
    /\ filterActive = {2}

\* C18 (as claimed): no event handler ends in an uncaught exception,
\* whichever expected elements are absent.
C18_NoHandlerThrows == ~pageEvent.threw

\* C20: .nav-links carries active iff .hamburger carries toggle, and right
\* after a click on an anchor whose target exists the menu is closed.
C20_MenuClassesAgree ==
    /\ navActive <=> hamToggle
    /\ (pageEvent.type = "anchor" /\ pageEvent.n = 1) => (~navActive /\ ~hamToggle)

\* C20 witness: an anchor with a target was clicked while the menu was
\* open, and the menu is closed.
C20_Witness ==
    /\ pageEvent.type = "anchor"
    /\ pageEvent.n = 1
    /\ pageEvent.open
    /\ ~navActive
    /\ ~hamToggle

(***************************************************************************)
(* Properties of the project modal, checked under SpecModal.               *)
(***************************************************************************)
HasNonSpace(str) == \E k \in 1..Len(str) : str[k] \notin {" ", "\t", "\n"}

\* C16: when the modal's fields exist, after any opens the dialog holds the
\* title, description and source link of the item activated last; the
\* live-demo link is shown iff that item carries a live link with a
\* non-blank character, and when shown it points to that item's link.  The
\* dialog is visible only in that case.
C16_ModalShowsLastItem ==
    /\ (lastOpened # 0 /\ firstMissing = "none") =>
          /\ modalTitle = Items[lastOpened].title
          /\ modalDesc = Items[lastOpened].desc
          /\ githubHref = Items[lastOpened].github
          /\ liveDisplay \in {"inline-block", "none"}
          /\ liveDisplay = "inline-block" <=>
                (Items[lastOpened].hasLive /\ HasNonSpace(Items[lastOpened].live))
          /\ liveDisplay = "inline-block" => liveHref = Items[lastOpened].live
    /\ modalDisplay = "block" => (lastOpened # 0 /\ firstMissing = "none")

\* C16 witness: an item without a live link was opened after one with a
\* link; the link element still holds the old href and is hidden.
C16_Witness ==
    /\ modalDisplay = "block"
    /\ lastOpened = 2
    /\ modalTitle = "Kasir"
    /\ liveDisplay = "none"
    /\ liveHref = UrlX

\* C17: the dialog becomes visible only by a detail trigger; the close
\* control and a click on the backdrop close it; Escape closes it when it
\* is visible and changes nothing otherwise; a click inside the content,
\* a click elsewhere in the grid and any other key change nothing.
C17_ModalOpenClose ==
    [][/\ (modalDisplay' = "block" /\ modalDisplay # "block") =>
              pageEvent'.type = "detail"
       /\ pageEvent'.type \in {"close", "backdrop"} => modalDisplay' = "none"
       /\ (pageEvent'.type = "Escape" /\ modalDisplay = "block") =>
              modalDisplay' = "none"
       /\ (pageEvent'.type = "Escape" /\ modalDisplay # "block") =>
              UNCHANGED modalVars
       /\ pageEvent'.type \in {"content", "grid", "Enter"} =>
              UNCHANGED modalVars]_vars

\* C17 witness: Escape was pressed with the dialog of item 1 open, and the
\* dialog is closed.
C17_Witness ==
    /\ pageEvent.type = "Escape"
    /\ lastOpened = 1
    /\ modalTitle = "Toko"
    /\ modalDisplay = "none"

(***************************************************************************)
(* A further property of the contact form, checked under SpecForm.         *)
(***************************************************************************)
\* C19: after a non-success response or an exception (rejected fetch,
\* unreadable body) the form's fields hold what they held before the
\* handler resumed.
C19_FieldsKeptOnFailure ==
    (Settled /\ lastEvent.status \notin 200..299) =>
        /\ lastEvent.path \in {"http", "exception", "rejected"}
        /\ fields = lastEvent.fieldsBefore

\* C19 witness: a submission ended on the exception path with both fields
\* still filled in.
C19_Witness ==
    /\ Settled
    /\ lastEvent.path = "exception"
    /\ \A x \in FieldNames : fields[x] = "hi"

====
